---- MODULE Spec2Model ----
(***************************************************************************)
(* Model of src/resources/app.py: the instrumented reverse proxy in front  *)
(* of an LLM backend.                                                      *)
(*                                                                         *)
(*   - JSON values and the Python operations the helpers apply to them     *)
(*     (truthiness, dict.get, list[0]) with Python's exceptions;           *)
(*   - text blobs as sequences of tokens, str.splitlines / str.strip /     *)
(*     str.split(prefix, 1) / json.loads on them;                          *)
(*   - the helpers _extract_last_json_from_blob,                           *)
(*     _aggregate_completion_from_stream, _extract_first_completion_text,  *)
(*     _extract_usage_from_data;                                           *)
(*   - the two route handlers chat_completions and dumb_proxy running on   *)
(*     the single asyncio event loop of the server process.                *)
(*                                                                         *)
(* Two specifications: Spec (the server: concurrent inbound calls) and     *)
(* SpecFn (the pure helpers applied to inputs drawn from bounded sets).    *)
(***************************************************************************)
EXTENDS Integers, Sequences, FiniteSets, TLC

VARIABLES
    fn,        \* SpecFn: the helper that was called ("none" before the call)
    arg,       \* SpecFn: its first argument (a blob or a decoded payload)
    pfx,       \* SpecFn: its prefix argument (a token sequence)
    ret,       \* SpecFn: what the call returned, or the exception it raised
    pc,        \* Spec: per inbound call, the handler's position
    route,     \* Spec: per inbound call, "chat" or "proxy"
    body,      \* Spec: per inbound call, the raw request body (a blob)
    sent,      \* Spec: per inbound call, what was handed to the backend
    resp,      \* Spec: per inbound call, the backend's answer
    out,       \* Spec: per inbound call, the HTTP response given to the caller
    span,      \* Spec: per inbound call, the attributes set on its span
    loop       \* Spec: the call whose synchronous code occupies the event loop (0: none)

vars == <<fn, arg, pfx, ret, pc, route, body, sent, resp, out, span, loop>>

fnVars == <<fn, arg, pfx, ret>>
srvVars == <<pc, route, body, sent, resp, out, span, loop>>

(***************************************************************************)
(* Bounds of the model.                                                    *)
(***************************************************************************)
MaxLines == 2      \* "\n"-separated lines of a generated blob
MaxCount == 2      \* token counts range over 0..MaxCount
NCalls == 2        \* concurrent inbound calls

(***************************************************************************)
(* JSON values as json.loads produces them (None, bool, int, str, list,    *)
(* dict), tagged so that values of different Python types can be compared. *)
(* A dict is a function on its keys.                                       *)
(* Raise(e) stands for an expression that raised exception e.              *)
(***************************************************************************)
Null == [t |-> "null"]
Bool(b) == [t |-> "bool", b |-> b]
Num(n) == [t |-> "num", n |-> n]
Str(s) == [t |-> "str", s |-> s]
Arr(a) == [t |-> "arr", a |-> a]
Obj(o) == [t |-> "obj", o |-> o]
Raise(e) == [t |-> "raise", e |-> e]

IsRaise(v) == v.t = "raise"

EmptyStr == Str("")
EmptyObj == Obj(<<>>)

\* The dict whose keys are the fields of f that have a value (a field that is
\* Absent is a key the dict does not have).
Absent == [t |-> "absent"]
Dict(f) == Obj([k \in {x \in DOMAIN f : f[x] # Absent} |-> f[k]])

\* bool(v): Python truthiness, as used by "if data:", "if not obj:", "a or b".
Truthy(v) ==
    CASE v.t = "null" -> FALSE
      [] v.t = "bool" -> v.b
      [] v.t = "num" -> v.n # 0
      [] v.t = "str" -> v.s # ""
      [] v.t = "arr" -> v.a # <<>>
      [] v.t = "obj" -> DOMAIN v.o # {}
      [] OTHER -> FALSE

\* v.get(k, d): only a dict has .get; an exception in v propagates.
Get(v, k, d) ==
    IF IsRaise(v) THEN v
    ELSE IF v.t = "obj" THEN (IF k \in DOMAIN v.o THEN v.o[k] ELSE d)
    ELSE Raise("AttributeError")

\* v[0]
Index0(v) ==
    CASE IsRaise(v) -> v
      [] v.t = "arr" -> IF v.a = <<>> THEN Raise("IndexError") ELSE v.a[1]
      [] v.t = "str" -> IF v.s = "" THEN Raise("IndexError") ELSE Str(SubSeq(v.s, 1, 1))
      [] v.t = "obj" -> Raise("KeyError")
      [] OTHER -> Raise("TypeError")

\* a or b
PyOr(a, b) == IF IsRaise(a) THEN a ELSE IF Truthy(a) THEN a ELSE b

\* v is not None
NotNone(v) == v.t # "null"

(***************************************************************************)
(* Text.  A blob is a sequence of tokens, each a piece of its text:        *)
(*   NL   a "\n";                                                          *)
(*   WS   a run of blanks;                                                 *)
(*   PFX  the text "stringValue:" outside any JSON document;               *)
(*   BAD  text that is not JSON and makes any text holding it undecodable  *)
(*        (a truncated event such as {"mess );                             *)
(*   Doc(v, txt)  the text of one JSON document that json.loads decodes to *)
(*        v.  txt says what its string literals hold: "plain" nothing of   *)
(*        note, "pfx" the text "stringValue:", "brk" a raw line boundary   *)
(*        other than "\n" (U+0085, U+2028, U+2029: legal unescaped in a    *)
(*        JSON string, and a boundary for str.splitlines).  The strings of *)
(*        v stand for the decoded text, that character included.           *)
(* bytes.decode(errors="replace") keeps this structure: a byte sequence    *)
(* and its text are the same token sequence.                               *)
(***************************************************************************)
NL == [k |-> "nl"]
WS == [k |-> "ws"]
PFX == [k |-> "pfx"]
BAD == [k |-> "bad"]
Doc(v, txt) == [k |-> "doc", v |-> v, txt |-> txt]

IsBlank(tok) == tok.k \in {"nl", "ws"}

\* The two prefixes the code passes: the default "stringValue:" and "".
DefaultPrefix == <<PFX>>
NoPrefix == <<>>

\* str.strip()
RECURSIVE LStrip(_)
LStrip(s) == IF s # <<>> /\ IsBlank(Head(s)) THEN LStrip(Tail(s)) ELSE s

RECURSIVE RStrip(_)
RStrip(s) ==
    IF s # <<>> /\ IsBlank(s[Len(s)]) THEN RStrip(SubSeq(s, 1, Len(s) - 1)) ELSE s

Strip(s) == RStrip(LStrip(s))

\* str.splitlines(): the text is cut at every line boundary; a boundary inside
\* a document's string literal cuts the document into two undecodable pieces.
\* acc are the lines completed so far, cur the line being read; a last line
\* that is empty is not a line ("a\n".splitlines() == ["a"]).
RECURSIVE SplitFrom(_, _, _)
SplitFrom(s, acc, cur) ==
    IF s = <<>> THEN (IF cur = <<>> THEN acc ELSE Append(acc, cur))
    ELSE LET tok == Head(s) IN
         CASE tok.k = "nl" -> SplitFrom(Tail(s), Append(acc, cur), <<>>)
           [] tok.k = "doc" /\ tok.txt = "brk" ->
                SplitFrom(Tail(s), Append(acc, Append(cur, BAD)), <<BAD>>)
           [] OTHER -> SplitFrom(Tail(s), acc, Append(cur, tok))

SplitLines(blob) == SplitFrom(blob, <<>>, <<>>)

\* [ln.strip() for ln in blob.splitlines() if ln.strip()]
StrippedLines(blob) ==
    LET ls == SplitLines(blob)
    IN  SelectSeq([i \in 1..Len(ls) |-> Strip(ls[i])], LAMBDA ln : ln # <<>>)

\* prefix in line
HoldsPrefix(tok) == tok = PFX \/ (tok.k = "doc" /\ tok.txt = "pfx")
PrefixIn(prefix, line) ==
    prefix # <<>> /\ \E i \in 1..Len(line) : HoldsPrefix(line[i])

\* line.split(prefix, 1)[-1]: the text after the first occurrence of the
\* prefix; an occurrence inside a document leaves the document's tail, which
\* starts inside a string literal and is undecodable.
AfterPrefix(line) ==
    LET i == CHOOSE j \in 1..Len(line) :
                 HoldsPrefix(line[j]) /\ \A h \in 1..(j - 1) : ~HoldsPrefix(line[h])
        rest == SubSeq(line, i + 1, Len(line))
    IN  IF line[i] = PFX THEN rest ELSE <<BAD>> \o rest

\* candidate = line.split(prefix, 1)[-1] if (prefix and prefix in line) else line
Candidate(prefix, line) ==
    IF PrefixIn(prefix, line) THEN AfterPrefix(line) ELSE line

\* json.loads(text): blanks around the one document are allowed, anything
\* else raises.
JsonLoads(text) ==
    LET s == Strip(text)
    IN  IF Len(s) = 1 /\ s[1].k = "doc" THEN s[1].v ELSE Raise("JSONDecodeError")

\* _safe_json_loads
SafeJsonLoads(text) ==
    LET v == JsonLoads(text) IN IF IsRaise(v) THEN EmptyObj ELSE v

(***************************************************************************)
(* The helpers.                                                            *)
(***************************************************************************)

\* The backward scan of _extract_last_json_from_blob from line i down.
RECURSIVE ScanBack(_, _, _)
ScanBack(lines, prefix, i) ==
    IF i = 0 THEN EmptyObj
    ELSE LET data == SafeJsonLoads(Strip(Candidate(prefix, lines[i])))
         IN  IF Truthy(data) THEN data ELSE ScanBack(lines, prefix, i - 1)

\* _extract_last_json_from_blob(blob, prefix)
ExtractLastJson(blob, prefix) ==
    IF blob = <<>> THEN EmptyObj
    ELSE LET stripped == StrippedLines(blob)
             lines == IF stripped # <<>> THEN stripped ELSE <<blob>>
         IN  ScanBack(lines, prefix, Len(lines))

\* "".join(pieces): every piece must be a str.
RECURSIVE JoinPieces(_)
JoinPieces(pieces) ==
    IF pieces = <<>> THEN EmptyStr
    ELSE LET h == Head(pieces)
             r == JoinPieces(Tail(pieces))
         IN  IF h.t # "str" THEN Raise("TypeError")
             ELSE IF IsRaise(r) THEN r
             ELSE Str(h.s \o r.s)

\* One turn of the loop of _aggregate_completion_from_stream on the decoded
\* line obj: the fragment it appends to pieces (Absent: none), or the
\* exception it raised.
AggregateStep(obj) ==
    IF ~Truthy(obj) THEN Absent
    ELSE LET msg == Get(obj, "message", EmptyObj)
             role == Get(msg, "role", Null)
         IN  IF IsRaise(role) THEN role
             ELSE IF role = Str("assistant") THEN Get(msg, "content", EmptyStr)
             ELSE LET content ==
                          Get(Get(Index0(Get(obj, "choices", Arr(<<EmptyObj>>))),
                                  "delta", EmptyObj), "content", Null)
                  IN  IF IsRaise(content) THEN content
                      ELSE IF Truthy(content) THEN content
                      ELSE Absent

\* The forward loop of _aggregate_completion_from_stream from line i on.
RECURSIVE AggregateFrom(_, _, _, _)
AggregateFrom(lines, prefix, i, pieces) ==
    IF i > Len(lines) THEN JoinPieces(pieces)
    ELSE LET frag == AggregateStep(SafeJsonLoads(Candidate(prefix, lines[i])))
         IN  IF IsRaise(frag) THEN frag
             ELSE AggregateFrom(lines, prefix, i + 1,
                                IF frag = Absent THEN pieces ELSE Append(pieces, frag))

\* _aggregate_completion_from_stream(blob, prefix)
AggregateCompletion(blob, prefix) ==
    IF blob = <<>> THEN EmptyStr
    ELSE AggregateFrom(StrippedLines(blob), prefix, 1, <<>>)

\* _extract_first_completion_text(data)
ExtractFirstCompletionText(data) ==
    IF ~Truthy(data) THEN EmptyStr
    ELSE LET first == Index0(Get(data, "choices", Arr(<<EmptyObj>>)))
             tried == Get(Get(first, "message", EmptyObj), "content", EmptyStr)
         IN  IF IsRaise(tried) THEN Get(first, "text", EmptyStr) ELSE tried

\* prompt + completion
PyAdd(a, b) ==
    IF a.t = "num" /\ b.t = "num" THEN Num(a.n + b.n) ELSE Raise("TypeError")

\* The 3-tuple _extract_usage_from_data returns.
Usage(p, c, n) == [t |-> "usage", prompt |-> p, completion |-> c, total |-> n]

\* Mutant of ExtractUsage: the native fields are looked at before the usage
\* object.
ExtractUsageNativeFirst(data) ==
    IF ~Truthy(data) THEN Usage(Null, Null, Null)
    ELSE IF "prompt_eval_count" \in DOMAIN data.o \/ "eval_count" \in DOMAIN data.o
    THEN LET prompt == Get(data, "prompt_eval_count", Null)
             completion == Get(data, "eval_count", Null)
         IN  Usage(prompt, completion,
                   IF NotNone(prompt) /\ NotNone(completion)
                   THEN PyAdd(prompt, completion) ELSE Null)
    ELSE LET usage == Get(data, "usage", EmptyObj)
         IN  IF Truthy(usage)
             THEN Usage(Get(usage, "prompt_tokens", Null),
                        Get(usage, "completion_tokens", Null),
                        Get(usage, "total_tokens", Null))
             ELSE Usage(Null, Null, Null)

\* Mutant of ExtractUsage: under the native schema a missing count is taken
\* as 0, so a total is made up from one count.
ExtractUsagePartialSum(data) ==
    IF ~Truthy(data) THEN Usage(Null, Null, Null)
    ELSE LET usage == Get(data, "usage", EmptyObj)
         IN  IF Truthy(usage)
             THEN Usage(Get(usage, "prompt_tokens", Null),
                        Get(usage, "completion_tokens", Null),
                        Get(usage, "total_tokens", Null))
             ELSE IF "prompt_eval_count" \in DOMAIN data.o \/ "eval_count" \in DOMAIN data.o
             THEN LET prompt == Get(data, "prompt_eval_count", Null)
                      completion == Get(data, "eval_count", Null)
                  IN  Usage(prompt, completion,
                            PyAdd(IF NotNone(prompt) THEN prompt ELSE Num(0),
                                  IF NotNone(completion) THEN completion ELSE Num(0)))
             ELSE Usage(Null, Null, Null)

\* _extract_usage_from_data(data)
ExtractUsage(data) ==
    IF ~Truthy(data) THEN Usage(Null, Null, Null)
    ELSE LET usage == Get(data, "usage", EmptyObj)
         IN  IF IsRaise(usage) THEN usage
             ELSE IF Truthy(usage)
             THEN LET p == Get(usage, "prompt_tokens", Null)
                  IN  IF IsRaise(p) THEN p
                      ELSE Usage(p, Get(usage, "completion_tokens", Null),
                                 Get(usage, "total_tokens", Null))
             ELSE IF "prompt_eval_count" \in DOMAIN data.o \/ "eval_count" \in DOMAIN data.o
             THEN LET prompt == Get(data, "prompt_eval_count", Null)
                      completion == Get(data, "eval_count", Null)
                      total == IF NotNone(prompt) /\ NotNone(completion)
                               THEN PyAdd(prompt, completion) ELSE Null
                  IN  IF IsRaise(total) THEN total
                      ELSE Usage(prompt, completion, total)
             ELSE Usage(Null, Null, Null)

(***************************************************************************)
(* Inputs of the helpers.                                                  *)
(***************************************************************************)

\* {"message": {"role": role, "content": c}}: an event of the native dialect.
MessageEvent(role, c) ==
    Obj([message |-> Dict([role |-> Str(role), content |-> c])])
NativeEvent(c) == MessageEvent("assistant", c)

\* {"choices": [{"delta": {"content": c}}]}: an event of the delta dialect.
DeltaEvent(c) == Obj([choices |-> Arr(<<Obj([delta |-> Dict([content |-> c])])>>)])

Fragments == {Str("a"), Str("b"), Str("")}

\* A JSON object that is no event.
Plain == Obj([model |-> Str("m")])

\* What one line of a blob may decode to.
LineValues ==
    {Null, Num(1), Str("s"), Arr(<<>>), Arr(<<Num(1)>>), EmptyObj, Plain}
    \cup {NativeEvent(c) : c \in Fragments \cup {Absent}}
    \cup {DeltaEvent(c) : c \in Fragments}
    \cup {MessageEvent("user", Str("a")),
          Obj([message |-> Str("x")]),
          Obj([choices |-> Arr(<<>>)]),
          Obj([choices |-> Arr(<<EmptyObj>>)])}

Docs ==
    {Doc(v, "plain") : v \in LineValues}
    \cup {Doc(Plain, "pfx"), Doc(Plain, "brk"), Doc(NativeEvent(Str("a")), "brk")}

\* The texts of one "\n"-separated line.
LineTexts ==
    {<<>>, <<WS>>, <<BAD>>}
    \cup {<<d>> : d \in Docs}
    \cup UNION {{<<WS, Doc(v, "plain"), WS>>, <<PFX, WS, Doc(v, "plain")>>} :
                    v \in {Plain, NativeEvent(Str("a"))}}
    \cup {<<BAD, PFX, Doc(Plain, "plain")>>}

\* "\n".join(lines)
RECURSIVE JoinLines(_)
JoinLines(lines) ==
    IF lines = <<>> THEN <<>>
    ELSE IF Len(lines) = 1 THEN lines[1]
    ELSE lines[1] \o <<NL>> \o JoinLines(Tail(lines))

Blobs == UNION {{JoinLines(ls) : ls \in [1..n -> LineTexts]} : n \in 0..MaxLines}

Prefixes == {NoPrefix, DefaultPrefix}

\* Payloads for _extract_first_completion_text.
Messages ==
    {Absent, Null} \cup {Dict([content |-> c]) : c \in {Absent, Null, Str(""), Str("a")}}
Choice0s ==
    {Dict([message |-> m, text |-> x]) : m \in Messages, x \in {Absent, Str(""), Str("b")}}
ChoicesValues ==
    {Absent, Arr(<<>>)} \cup {Arr(<<e>>) : e \in Choice0s}
    \cup {Arr(<<Obj([text |-> Str("b")]), Obj([text |-> Str("a")])>>)}
CompletionPayloads ==
    {EmptyObj} \cup {Dict([id |-> Str("x"), choices |-> ch]) : ch \in ChoicesValues}

\* Payloads for _extract_usage_from_data.
Counts == {Num(n) : n \in 0..MaxCount}
UsageValues ==
    {Absent, Null}
    \cup {Dict([prompt_tokens |-> p, completion_tokens |-> c, total_tokens |-> n]) :
              p \in Counts \cup {Absent}, c \in Counts \cup {Absent},
              n \in Counts \cup {Absent}}
UsagePayloads ==
    {Dict([usage |-> u, prompt_eval_count |-> p, eval_count |-> c]) :
         u \in UsageValues, p \in Counts \cup {Absent, Null},
         c \in Counts \cup {Absent, Null}}

(***************************************************************************)
(* SpecFn: one call of one helper on an input drawn by Init.               *)
(***************************************************************************)
Calls == 1..NCalls

Idle ==
    /\ pc = [c \in Calls |-> "none"]
    /\ route = [c \in Calls |-> "none"]
    /\ body = [c \in Calls |-> <<>>]
    /\ sent = [c \in Calls |-> Absent]
    /\ resp = [c \in Calls |-> Absent]
    /\ out = [c \in Calls |-> Absent]
    /\ span = [c \in Calls |-> Absent]
    /\ loop = 0

InitFn ==
    /\ fn = "none"
    /\ ret = Absent
    /\ \/ /\ arg \in {[kind |-> "blob", v |-> b] : b \in Blobs}
          /\ pfx \in Prefixes
       \/ /\ arg \in {[kind |-> "completion", v |-> d] : d \in CompletionPayloads}
                     \cup {[kind |-> "usage", v |-> d] : d \in UsagePayloads}
          /\ pfx = NoPrefix
    /\ Idle

CallExtractLastJson ==
    /\ fn = "none" /\ arg.kind = "blob"
    /\ fn' = "parse"
    /\ ret' = ExtractLastJson(arg.v, pfx)
    /\ UNCHANGED <<arg, pfx, srvVars>>

CallAggregateCompletion ==
    /\ fn = "none" /\ arg.kind = "blob"
    /\ fn' = "aggregate"
    /\ ret' = AggregateCompletion(arg.v, pfx)
    /\ UNCHANGED <<arg, pfx, srvVars>>

CallExtractFirstCompletionText ==
    /\ fn = "none" /\ arg.kind = "completion"
    /\ fn' = "first"
    /\ ret' = ExtractFirstCompletionText(arg.v)
    /\ UNCHANGED <<arg, pfx, srvVars>>

CallExtractUsage ==
    /\ fn = "none" /\ arg.kind = "usage"
    /\ fn' = "usage"
    /\ ret' = ExtractUsage(arg.v)
    /\ UNCHANGED <<arg, pfx, srvVars>>

NextFn ==
    \/ CallExtractLastJson
    \/ CallAggregateCompletion
    \/ CallExtractFirstCompletionText
    \/ CallExtractUsage

SpecFn == InitFn /\ [][NextFn]_vars

(***************************************************************************)
(* What the specification says of the helpers, stated on the inputs.       *)
(***************************************************************************)

\* The field k of a mapping (Absent when v is no mapping or has no key k).
Field(v, k) == IF v.t = "obj" /\ k \in DOMAIN v.o THEN v.o[k] ELSE Absent

\* A fact that is there: a key with a value other than null.
Present(v) == v # Absent /\ v # Null

\* Absent facts are reported as None.
OrNone(v) == IF v = Absent THEN Null ELSE v

\* The newline-delimited lines of a blob, trimmed, the blank ones dropped.
RECURSIVE CutAtNewlines(_, _, _)
CutAtNewlines(s, acc, cur) ==
    IF s = <<>> THEN Append(acc, cur)
    ELSE IF Head(s) = NL THEN CutAtNewlines(Tail(s), Append(acc, cur), <<>>)
    ELSE CutAtNewlines(Tail(s), acc, Append(cur, Head(s)))

NewlineLines(blob) ==
    LET ls == CutAtNewlines(blob, <<>>, <<>>)
    IN  SelectSeq([i \in 1..Len(ls) |-> Strip(ls[i])], LAMBDA ln : ln # <<>>)

\* The line is the text of one JSON document.
IsDocLine(line) == Len(line) = 1 /\ line[1].k = "doc"

IsNativeEvent(v) ==
    /\ Field(v, "message").t = "obj"
    /\ Field(Field(v, "message"), "role") = Str("assistant")
    /\ Field(Field(v, "message"), "content").t = "str"

IsDeltaEvent(v) ==
    /\ ~IsNativeEvent(v)
    /\ Field(v, "choices").t = "arr"
    /\ Len(Field(v, "choices").a) = 1
    /\ Field(Field(Field(v, "choices").a[1], "delta"), "content").t = "str"

IsEventLine(line) ==
    IsDocLine(line) /\ (IsNativeEvent(line[1].v) \/ IsDeltaEvent(line[1].v))

EventContent(v) ==
    IF IsNativeEvent(v) THEN Field(Field(v, "message"), "content").s
    ELSE Field(Field(Field(v, "choices").a[1], "delta"), "content").s

\* The content values of the event lines, first line first, no separator.
RECURSIVE ConcatContents(_)
ConcatContents(lines) ==
    IF lines = <<>> THEN ""
    ELSE EventContent(lines[1][1].v) \o ConcatContents(Tail(lines))

IsStream(lines) == Len(lines) >= 2 /\ \A i \in 1..Len(lines) : IsEventLine(lines[i])

\* The line decodes to a non-empty JSON object.
IsObjectLine(line) ==
    IsDocLine(line) /\ line[1].v.t = "obj" /\ DOMAIN line[1].v.o # {}

\* The object of the last line that decodes to a non-empty object.
LastObject(lines) ==
    IF \E i \in 1..Len(lines) : IsObjectLine(lines[i])
    THEN LET i == CHOOSE j \in 1..Len(lines) :
                      IsObjectLine(lines[j])
                      /\ \A h \in (j + 1)..Len(lines) : ~IsObjectLine(lines[h])
         IN  lines[i][1].v
    ELSE EmptyObj

\* No document of the blob holds, inside a string literal, the prefix text or
\* a line boundary other than "\n".
PlainText(blob) ==
    \A i \in 1..Len(blob) : blob[i].k = "doc" => blob[i].txt = "plain"

(***************************************************************************)
(* Claims about the helpers (checked under SpecFn).                        *)
(***************************************************************************)

\* C2: parse_last_json returns a mapping for every blob and every prefix: it
\* never raises and never returns an array, a string, a number or a boolean.
C2_ParseReturnsMapping == fn = "parse" => ret.t = "obj"

\* C3: aggregate_completion returns a string for every blob, whatever its
\* lines decode to: it never raises.
C3_AggregateNeverRaises == fn = "aggregate" => ret.t = "str"

\* C5: for every multi-line stream whose newline-delimited lines are events of
\* the native or the delta dialect, aggregate_completion (empty prefix)
\* returns the concatenation of their content values, first line first.
C5_StreamConcatenation ==
    (fn = "aggregate" /\ pfx = NoPrefix /\ IsStream(NewlineLines(arg.v)))
        => ret = Str(ConcatContents(NewlineLines(arg.v)))

\* The same for streams in which no content value holds a line boundary of
\* str.splitlines other than "\n": the part of C5 the code satisfies.
PlainStreamConcatenation ==
    (fn = "aggregate" /\ pfx = NoPrefix /\ PlainText(arg.v)
     /\ IsStream(NewlineLines(arg.v)))
        => ret = Str(ConcatContents(NewlineLines(arg.v)))

\* C6: parse_last_json (empty prefix) returns the object decoded from the
\* last line that decodes to a non-empty JSON object, skipping every later
\* line; a single-line JSON object is returned as itself.
C6_LastObjectWins ==
    (fn = "parse" /\ pfx = NoPrefix) => ret = LastObject(NewlineLines(arg.v))

\* The payload's usage object, when it is a non-empty mapping.
HasUsageObject(data) ==
    Field(data, "usage").t = "obj" /\ DOMAIN Field(data, "usage").o # {}

\* What the payload itself gives as the total.
SuppliedTotal(data) ==
    IF HasUsageObject(data) THEN OrNone(Field(Field(data, "usage"), "total_tokens"))
    ELSE Null

\* C7 as stated: under either schema, when both counts are present and the
\* payload supplies no total, total_tokens is their sum; with only one count
\* present the total is never derived.
C7_TotalIsSumEitherSchema ==
    (fn = "usage" /\ ret.t = "usage") =>
        /\ (Present(ret.prompt) /\ Present(ret.completion)
            /\ ~Present(SuppliedTotal(arg.v)))
               => ret.total = Num(ret.prompt.n + ret.completion.n)
        /\ (Present(ret.prompt) # Present(ret.completion))
               => ret.total = SuppliedTotal(arg.v)

\* C7 amended: the sum is derived under the native schema only; under the
\* usage-object schema total_tokens is what the usage object gives (absent when
\* it gives none); with only one count present the total is never derived.
C7_TotalIsSumNativeOnly ==
    (fn = "usage" /\ ret.t = "usage") =>
        /\ (~HasUsageObject(arg.v) /\ Present(ret.prompt) /\ Present(ret.completion))
               => ret.total = Num(ret.prompt.n + ret.completion.n)
        /\ HasUsageObject(arg.v) => ret.total = SuppliedTotal(arg.v)
        /\ (Present(ret.prompt) # Present(ret.completion))
               => ret.total = SuppliedTotal(arg.v)

\* Both counts present under the native schema, and their sum reported.
C7_Witness ==
    /\ fn = "usage" /\ ret.t = "usage"
    /\ ~HasUsageObject(arg.v)
    /\ ret.prompt = Num(1) /\ ret.completion = Num(2) /\ ret.total = Num(3)

\* C8: usage_facts selects its schema by priority: a non-empty usage object
\* gives the three facts as they are in it (absent keys absent) and the native
\* fields are ignored; otherwise prompt_eval_count and eval_count give prompt
\* and completion, the total being their sum only when both are present;
\* otherwise all three facts are absent.
C8_UsageSchemaPriority ==
    fn = "usage" =>
        LET data == arg.v
            usage == Field(data, "usage")
            p == Field(data, "prompt_eval_count")
            c == Field(data, "eval_count")
        IN  IF HasUsageObject(data)
            THEN ret = Usage(OrNone(Field(usage, "prompt_tokens")),
                             OrNone(Field(usage, "completion_tokens")),
                             OrNone(Field(usage, "total_tokens")))
            ELSE IF Present(p) \/ Present(c)
            THEN ret = Usage(OrNone(p), OrNone(c),
                             IF Present(p) /\ Present(c) THEN Num(p.n + c.n) ELSE Null)
            ELSE ret = Usage(Null, Null, Null)

\* A usage object without total_tokens wins over both native counts: the total
\* stays absent although the native fields would give a sum.
C8_Witness ==
    /\ fn = "usage"
    /\ HasUsageObject(arg.v)
    /\ Present(Field(arg.v, "prompt_eval_count")) /\ Present(Field(arg.v, "eval_count"))
    /\ ret = Usage(Num(1), Null, Null)

\* choices[0] of the payload, when choices is a non-empty list.
FirstChoice(data) ==
    IF Field(data, "choices").t = "arr" /\ Field(data, "choices").a # <<>>
    THEN Field(data, "choices").a[1]
    ELSE Absent

\* C9: first_completion_text returns choices[0].message.content when present,
\* else choices[0].text when present, else the empty string, without raising.
C9_FirstCompletionText ==
    fn = "first" =>
        LET first == FirstChoice(arg.v)
            content == Field(Field(first, "message"), "content")
            text == Field(first, "text")
        IN  IF Present(content) THEN ret = content
            ELSE IF Present(text) THEN ret = text
            ELSE ret = EmptyStr

(***************************************************************************)
(* The handlers.                                                           *)
(***************************************************************************)

\* next((m.get("content", "") for m in reversed(messages)
\*       if m.get("role") == "user"), ""), from entry i down.
RECURSIVE LastUserFrom(_, _)
LastUserFrom(msgs, i) ==
    IF i = 0 THEN EmptyStr
    ELSE LET role == Get(msgs[i], "role", Null)
         IN  IF IsRaise(role) THEN role
             ELSE IF role = Str("user") THEN Get(msgs[i], "content", EmptyStr)
             ELSE LastUserFrom(msgs, i - 1)

\* Iterating a value that is no list: an empty str or dict yields nothing, the
\* items of a non-empty one are str and have no .get; the rest do not iterate.
IterateOther(v) ==
    CASE IsRaise(v) -> v
      [] v.t \in {"str", "obj"} -> IF Truthy(v) THEN Raise("AttributeError") ELSE EmptyStr
      [] OTHER -> Raise("TypeError")

LastUserMessage(messages) ==
    IF messages.t = "arr" THEN LastUserFrom(messages.a, Len(messages.a))
    ELSE IterateOther(messages)

\* The contents of the entries with role "system", in order (or the exception).
RECURSIVE SystemContents(_)
SystemContents(msgs) ==
    IF msgs = <<>> THEN <<>>
    ELSE LET role == Get(Head(msgs), "role", Null)
             rest == SystemContents(Tail(msgs))
         IN  IF IsRaise(role) THEN <<role>>
             ELSE IF role = Str("system")
             THEN <<Get(Head(msgs), "content", EmptyStr)>> \o rest
             ELSE rest

\* "\n".join(contents)
RECURSIVE JoinNewline(_)
JoinNewline(cs) ==
    IF cs = <<>> THEN EmptyStr
    ELSE IF IsRaise(cs[1]) THEN cs[1]
    ELSE IF cs[1].t # "str" THEN Raise("TypeError")
    ELSE IF Len(cs) = 1 THEN cs[1]
    ELSE LET r == JoinNewline(Tail(cs))
         IN  IF IsRaise(r) THEN r ELSE Str(cs[1].s \o "\n" \o r.s)

\* "\n".join(m.get("content", "") for m in messages if m.get("role") == "system")
AllSystemMessages(messages) ==
    IF messages.t = "arr" THEN JoinNewline(SystemContents(messages.a))
    ELSE IterateOther(messages)

\* The first exception among vs, in evaluation order (Absent: none raised).
RECURSIVE FirstRaise(_)
FirstRaise(vs) ==
    IF vs = <<>> THEN Absent
    ELSE IF IsRaise(Head(vs)) THEN Head(vs)
    ELSE FirstRaise(Tail(vs))

\* The response the ASGI server gives when the handler raised.
ServerError == [status |-> 500, body |-> <<[k |-> "text", s |-> "Internal Server Error"]>>]

\* None as an attribute that is not recorded ("if x is not None").
Recorded(v) == IF v = Null THEN Absent ELSE v

\* v.pop(k, None): what it returns (list.pop takes one argument at most).
Pop(v, k) ==
    CASE IsRaise(v) -> v
      [] v.t = "obj" -> IF k \in DOMAIN v.o THEN v.o[k] ELSE Null
      [] v.t = "arr" -> Raise("TypeError")
      [] OTHER -> Raise("AttributeError")

\* d without the keys ks: the dict after d.pop(k, None) for each k of ks.
Without(d, ks) == Obj([k \in DOMAIN d.o \ ks |-> d.o[k]])

\* dumb_proxy up to its await of client.request: the facts of the request, or
\* the exception raised before the span is opened.
ProxyRequestFacts(body_str) ==
    LET req_data == ExtractLastJson(body_str, DefaultPrefix)
        req_model == Get(req_data, "model", EmptyStr)
        req_temperature ==
            PyOr(Get(req_data, "temperature", Null),
                 Get(Get(req_data, "options", EmptyObj), "temperature", Null))
        messages == Get(req_data, "messages", Arr(<<>>))
        req_user_prompt == LastUserMessage(messages)
        req_system_prompt == AllSystemMessages(messages)
        raised == FirstRaise(<<req_model, req_temperature, messages,
                               req_user_prompt, req_system_prompt>>)
    IN  IF raised # Absent THEN raised
        ELSE [t |-> "span",
              body |-> body_str,
              prompt |-> req_user_prompt,
              system |-> req_system_prompt,
              model |-> IF Truthy(req_model) THEN req_model ELSE Absent,
              temperature |-> Recorded(req_temperature)]

\* dumb_proxy after the await: the facts of the response, or the exception.
ProxyResponseFacts(resp_text) ==
    LET aggregated == AggregateCompletion(resp_text, NoPrefix)
        fallback == ExtractLastJson(resp_text, NoPrefix)
        completion_text ==
            IF IsRaise(aggregated) THEN aggregated
            ELSE IF Truthy(aggregated) THEN aggregated
            ELSE PyOr(ExtractFirstCompletionText(fallback),
                      Get(Get(fallback, "message", EmptyObj), "content", EmptyStr))
        usage == ExtractUsage(ExtractLastJson(resp_text, NoPrefix))
        raised == FirstRaise(<<completion_text, usage>>)
    IN  IF raised # Absent THEN raised
        ELSE [t |-> "facts",
              body |-> resp_text,
              completion |-> completion_text,
              input_tokens |-> Recorded(usage.prompt),
              output_tokens |-> Recorded(usage.completion),
              total_tokens |-> Recorded(usage.total)]

\* chat_completions up to the call of the client: the payload it passes on and
\* the facts of the request, or the exception.
ChatRequestFacts(body_bytes) ==
    LET decoded == JsonLoads(body_bytes)
        popped == Pop(decoded, "options")
        dify_options == PyOr(popped, EmptyObj)
        payload == IF decoded.t = "obj" THEN Without(decoded, {"options", "format"})
                   ELSE Pop(decoded, "format")
        messages == Get(payload, "messages", Arr(<<>>))
        user_prompt == LastUserMessage(messages)
        system_messages == AllSystemMessages(messages)
        request_model == Get(payload, "model", EmptyStr)
        request_temperature ==
            PyOr(Get(payload, "temperature", Null),
                 Get(dify_options, "temperature", Null))
        raised == FirstRaise(<<decoded, popped, payload, messages, user_prompt,
                               system_messages, request_model, request_temperature>>)
    IN  IF raised # Absent THEN raised
        ELSE [t |-> "span",
              body |-> payload,
              prompt |-> user_prompt,
              system |-> system_messages,
              model |-> request_model,
              temperature |-> Recorded(request_temperature)]

\* oa.chat.completions.create(**payload) rejects a call without its required
\* arguments before it sends anything.
HasRequiredArguments(payload) == {"messages", "model"} \subseteq DOMAIN payload.o

\* chat_completions after the client returned data.
ChatResponseFacts(data) ==
    LET completion_text == ExtractFirstCompletionText(data)
        usage == ExtractUsage(data)
        raised == FirstRaise(<<completion_text, usage>>)
    IN  IF raised # Absent THEN raised
        ELSE [t |-> "facts",
              body |-> data,
              completion |-> completion_text,
              input_tokens |-> Recorded(usage.prompt),
              output_tokens |-> Recorded(usage.completion),
              total_tokens |-> Recorded(usage.total)]

(***************************************************************************)
(* Spec: the server.  Each inbound call runs its handler as a coroutine on *)
(* the one event loop of the process: the code between two awaits runs     *)
(* without interleaving, and loop names the call whose synchronous code    *)
(* keeps the loop's thread while it waits (0: the loop is free).           *)
(* Method, query parameters and headers are handed through by dumb_proxy   *)
(* (Host, content-encoding and transfer-encoding dropped) and take no part *)
(* in what the handlers compute; the state keeps bodies and status codes.  *)
(***************************************************************************)
UserMessages ==
    Arr(<<Obj([role |-> Str("system"), content |-> Str("sys")]),
          Obj([role |-> Str("user"), content |-> Str("hi")])>>)

Temperatures == {Absent, Num(0), Num(1)}
OptionsValues == {Absent, Obj([temperature |-> Num(2)])}

RequestBodies ==
    {<<>>, <<BAD>>, <<Doc(Arr(<<Num(1)>>), "plain")>>, <<Doc(Plain, "plain")>>}
    \cup {<<Doc(Dict([model |-> Str("m"), messages |-> UserMessages,
                      temperature |-> t, options |-> o]), "plain")>> :
              t \in Temperatures, o \in OptionsValues}

UsageObject == Obj([prompt_tokens |-> Num(2), completion_tokens |-> Num(1)])

Completion ==
    Obj([choices |-> Arr(<<Obj([message |-> Obj([role |-> Str("assistant"),
                                                   content |-> Str("hello")])])>>),
         usage |-> UsageObject])

\* What the backend may answer on the generic path: status and raw body.
BackendResponses ==
    {[status |-> 200, body |-> <<Doc(NativeEvent(Str("a")), "plain"), NL,
                                 Doc(NativeEvent(Str("b")), "plain")>>],
     [status |-> 200, body |-> <<Doc(Completion, "plain")>>],
     [status |-> 200, body |-> <<Doc(Arr(<<Num(1)>>), "plain")>>],
     [status |-> 204, body |-> <<>>],
     [status |-> 500, body |-> <<BAD>>]}

\* What the structured client may return (resp.model_dump()) or raise.
ClientResults == {Completion, Obj([choices |-> Arr(<<>>)]), Raise("APIError")}

Init ==
    /\ fn = "none" /\ arg = Absent /\ pfx = NoPrefix /\ ret = Absent
    /\ Idle

\* The event loop can run the handler of call c: its thread is not kept by the
\* synchronous code of another call.
CanRun(c) == loop \in {0, c}

\* A client sends a request; the server accepts it and schedules its handler.
Arrive(c) ==
    /\ pc[c] = "none"
    /\ \E r \in {"chat", "proxy"}, b \in RequestBodies :
           /\ route' = [route EXCEPT ![c] = r]
           /\ body' = [body EXCEPT ![c] = b]
    /\ pc' = [pc EXCEPT ![c] = "accepted"]
    /\ UNCHANGED <<fnVars, sent, resp, out, span, loop>>

\* dumb_proxy from its start to the await of client.request.
ProxyStart(c) ==
    /\ pc[c] = "accepted" /\ route[c] = "proxy" /\ CanRun(c)
    /\ LET facts == ProxyRequestFacts(body[c])
       IN  IF IsRaise(facts)
           THEN /\ out' = [out EXCEPT ![c] = ServerError]
                /\ pc' = [pc EXCEPT ![c] = "done"]
                /\ UNCHANGED <<sent, span>>
           ELSE /\ span' = [span EXCEPT ![c] = [request |-> facts, response |-> Absent]]
                /\ sent' = [sent EXCEPT ![c] = [content |-> body[c]]]
                /\ pc' = [pc EXCEPT ![c] = "awaiting"]
                /\ UNCHANGED out
    /\ UNCHANGED <<fnVars, route, body, resp, loop>>

\* The backend answers the forwarded request.
BackendAnswer(c) ==
    /\ pc[c] = "awaiting"
    /\ \E r \in BackendResponses : resp' = [resp EXCEPT ![c] = r]
    /\ pc' = [pc EXCEPT ![c] = "answered"]
    /\ UNCHANGED <<fnVars, route, body, sent, out, span, loop>>

\* dumb_proxy from the return of client.request to its end.
ProxyFinish(c) ==
    /\ pc[c] = "answered" /\ route[c] = "proxy" /\ CanRun(c)
    /\ LET facts == ProxyResponseFacts(resp[c].body)
       IN  IF IsRaise(facts)
           THEN /\ out' = [out EXCEPT ![c] = ServerError]
                /\ UNCHANGED span
           ELSE /\ out' = [out EXCEPT ![c] = [status |-> resp[c].status,
                                              body |-> resp[c].body]]
                /\ span' = [span EXCEPT ![c].response = facts]
    /\ pc' = [pc EXCEPT ![c] = "done"]
    /\ UNCHANGED <<fnVars, route, body, sent, resp, loop>>

\* chat_completions from its start into oa.chat.completions.create: a
\* synchronous call, so the handler keeps the event loop while it waits.
ChatStart(c) ==
    /\ pc[c] = "accepted" /\ route[c] = "chat" /\ CanRun(c)
    /\ LET facts == ChatRequestFacts(body[c])
       IN  IF IsRaise(facts)
           THEN /\ out' = [out EXCEPT ![c] = ServerError]
                /\ pc' = [pc EXCEPT ![c] = "done"]
                /\ UNCHANGED <<sent, span, loop>>
           ELSE IF ~HasRequiredArguments(facts.body)
           THEN /\ out' = [out EXCEPT ![c] = ServerError]
                /\ span' = [span EXCEPT ![c] = [request |-> facts, response |-> Absent]]
                /\ pc' = [pc EXCEPT ![c] = "done"]
                /\ UNCHANGED <<sent, loop>>
           ELSE /\ span' = [span EXCEPT ![c] = [request |-> facts, response |-> Absent]]
                /\ sent' = [sent EXCEPT ![c] = [kwargs |-> facts.body]]
                /\ pc' = [pc EXCEPT ![c] = "in_create"]
                /\ loop' = c
                /\ UNCHANGED out
    /\ UNCHANGED <<fnVars, route, body, resp>>

\* The backend answers the structured client, which is still inside create.
ClientAnswer(c) ==
    /\ pc[c] = "in_create"
    /\ \E r \in ClientResults : resp' = [resp EXCEPT ![c] = r]
    /\ pc' = [pc EXCEPT ![c] = "created"]
    /\ UNCHANGED <<fnVars, route, body, sent, out, span, loop>>

\* chat_completions from the return of create to its end.
ChatFinish(c) ==
    /\ pc[c] = "created" /\ CanRun(c)
    /\ LET facts == IF IsRaise(resp[c]) THEN resp[c] ELSE ChatResponseFacts(resp[c])
       IN  IF IsRaise(facts)
           THEN /\ out' = [out EXCEPT ![c] = ServerError]
                /\ UNCHANGED span
           ELSE /\ out' = [out EXCEPT ![c] = [status |-> 200, json |-> resp[c]]]
                /\ span' = [span EXCEPT ![c].response = facts]
    /\ pc' = [pc EXCEPT ![c] = "done"]
    /\ loop' = 0
    /\ UNCHANGED <<fnVars, route, body, sent, resp>>

\* The handler of call c has a step to take once the event loop runs it.
HasStep(c) == pc[c] \in {"accepted", "answered", "created"}

Next ==
    \E c \in Calls :
        \/ Arrive(c)
        \/ ProxyStart(c)
        \/ BackendAnswer(c)
        \/ ProxyFinish(c)
        \/ ChatStart(c)
        \/ ClientAnswer(c)
        \/ ChatFinish(c)

Spec == Init /\ [][Next]_vars

(***************************************************************************)
(* Claims about the handlers (checked under Spec).                         *)
(***************************************************************************)

\* C1: for every request body the generic proxy handler forwards the raw body
\* unchanged and returns the backend's status code and body unchanged: parsing
\* the request or the response never prevents the forward and never changes
\* or replaces the response.
C1_ProxyTransparent ==
    \A c \in Calls :
        (route[c] = "proxy" /\ pc[c] = "done") =>
            /\ sent[c] = [content |-> body[c]]
            /\ resp[c] # Absent
            /\ out[c] = [status |-> resp[c].status, body |-> resp[c].body]

\* C4: while a chat-completions call waits inside the blocking client call,
\* every other inbound call whose handler has a step to take can take it.
C4_OthersProgress ==
    \A c \in Calls : \A d \in Calls \ {c} :
        (pc[c] = "in_create" /\ HasStep(d)) => CanRun(d)

\* C10: in both handlers the recorded request temperature is the top-level
\* temperature whenever the request has one (the value 0 included), the
\* options.temperature only when it has none, and nothing when it has neither.
C10_TopLevelTemperatureFirst ==
    \A c \in Calls :
        span[c] # Absent =>
            LET request == JsonLoads(body[c])
                top == Field(request, "temperature")
                inOptions == Field(Field(request, "options"), "temperature")
            IN  span[c].request.temperature =
                    IF Present(top) THEN top
                    ELSE IF Present(inOptions) THEN inOptions
                    ELSE Absent

\* A generic-proxy call suspended in its await of the backend does not keep
\* the event loop: the await gives it back.
AwaitingProxyKeepsNoLoop == \A c \in Calls : pc[c] = "awaiting" => loop # c

\* A generic-proxy call whose handler did not raise forwarded the raw body and
\* returned the backend's status and body.
ProxyTransparentUnlessRaised ==
    \A c \in Calls :
        (route[c] = "proxy" /\ pc[c] = "done" /\ out[c] # ServerError) =>
            /\ sent[c] = [content |-> body[c]]
            /\ out[c] = [status |-> resp[c].status, body |-> resp[c].body]

====
